---- MODULE Spec2Model ----
(***************************************************************************)
(* Wall.py: a Flask application with one view, POST /submit, and a         *)
(* SecurityMiddleware whose validate_request hook scans request.data for   *)
(* SQL tokens and HTML-tag-shaped substrings before the request is         *)
(* dispatched.                                                             *)
(*                                                                         *)
(* A request body is a sequence of bytes.  An ASCII byte is written as the *)
(* one-character string it encodes; "0xC5" and "0xBF" are the two bytes of *)
(* the UTF-8 encoding of U+017F (LATIN SMALL LETTER LONG S), the one       *)
(* non-ASCII character of the model.  Decoded text is a sequence of        *)
(* characters: one-character strings, and "U+017F".                        *)
(***************************************************************************)
EXTENDS Integers, Sequences, FiniteSets

VARIABLES entry, running, before_request_funcs, req

vars == <<entry, running, before_request_funcs, req>>

----------------------------------------------------------------------------
(* Bounds of the model. *)

\* create_app() is called at most this many times
MaxCreateApp == 2
\* a generated body is the concatenation of at most this many fragments
MaxParts == 3

\* request contexts that can be live at the same time
Slots == {1, 2}

----------------------------------------------------------------------------
(* request.data.decode('utf-8')                                            *)

DecodeFailed == [ok |-> FALSE, text |-> <<>>]

RECURSIVE utf8_decode(_)
utf8_decode(b) ==
    IF b = <<>> THEN [ok |-> TRUE, text |-> <<>>]
    ELSE IF Head(b) = "0xC5"
         THEN IF Len(b) >= 2 /\ b[2] = "0xBF"
              THEN LET rest == utf8_decode(SubSeq(b, 3, Len(b)))
                   IN  IF rest.ok
                       THEN [ok |-> TRUE, text |-> <<"U+017F">> \o rest.text]
                       ELSE DecodeFailed
              ELSE DecodeFailed             \* lead byte without continuation
    ELSE IF Head(b) = "0xBF"
         THEN DecodeFailed                  \* continuation byte without lead
    ELSE LET rest == utf8_decode(Tail(b))
         IN  IF rest.ok
             THEN [ok |-> TRUE, text |-> <<Head(b)>> \o rest.text]
             ELSE DecodeFailed

----------------------------------------------------------------------------
(* The two compiled patterns of validate_request.                          *)

UpperCase == <<"A","B","C","D","E","F","G","H","I","J","K","L","M",
               "N","O","P","Q","R","S","T","U","V","W","X","Y","Z">>
LowerCase == <<"a","b","c","d","e","f","g","h","i","j","k","l","m",
               "n","o","p","q","r","s","t","u","v","w","x","y","z">>

\* re.IGNORECASE on str patterns: characters are compared by their lower
\* case, and U+017F is one of the characters the engine equates with "s".
IgnoreCaseLower(c) ==
    IF \E k \in 1..26 : UpperCase[k] = c
    THEN LowerCase[CHOOSE k \in 1..26 : UpperCase[k] = c]
    ELSE IF c = "U+017F" THEN "s" ELSE c

\* the alternatives of r"(SELECT|INSERT|UPDATE|DELETE|DROP|;|--|#)", in order
sql_injection_alternatives ==
    << <<"S","E","L","E","C","T">>,
       <<"I","N","S","E","R","T">>,
       <<"U","P","D","A","T","E">>,
       <<"D","E","L","E","T","E">>,
       <<"D","R","O","P">>,
       <<";">>,
       <<"-","-">>,
       <<"#">> >>

\* does the literal lit match text at position i, ignoring case
LiteralMatchesAt(text, i, lit) ==
    /\ i + Len(lit) - 1 <= Len(text)
    /\ \A k \in 1..Len(lit) :
          IgnoreCaseLower(text[i + k - 1]) = IgnoreCaseLower(lit[k])

RECURSIVE SqlSearchFrom(_, _)
SqlSearchFrom(text, i) ==
    IF i > Len(text) THEN 0
    ELSE IF \E a \in 1..Len(sql_injection_alternatives) :
                LiteralMatchesAt(text, i, sql_injection_alternatives[a])
         THEN i
         ELSE SqlSearchFrom(text, i + 1)

\* an operator of the same shape that matches case-sensitively
LiteralEqualsAt(text, i, lit) ==
    /\ i + Len(lit) - 1 <= Len(text)
    /\ \A k \in 1..Len(lit) : text[i + k - 1] = lit[k]

RECURSIVE SqlSearchFromCaseSensitive(_, _)
SqlSearchFromCaseSensitive(text, i) ==
    IF i > Len(text) THEN 0
    ELSE IF \E a \in 1..Len(sql_injection_alternatives) :
                LiteralEqualsAt(text, i, sql_injection_alternatives[a])
         THEN i
         ELSE SqlSearchFromCaseSensitive(text, i + 1)

\* sql_injection_patterns.search without re.IGNORECASE
sql_injection_patterns_search_cs(text) == SqlSearchFromCaseSensitive(text, 1)

RECURSIVE SqlSearchSingleDash(_, _)
SqlSearchSingleDash(text, i) ==
    IF i > Len(text) THEN 0
    ELSE IF \/ \E a \in 1..Len(sql_injection_alternatives) :
                   LiteralMatchesAt(text, i, sql_injection_alternatives[a])
            \/ text[i] = "-"
         THEN i
         ELSE SqlSearchSingleDash(text, i + 1)

\* sql_injection_patterns.search with the alternative "-" in place of "--"
sql_injection_patterns_search_dash(text) == SqlSearchSingleDash(text, 1)

\* sql_injection_patterns.search(text): the start of the leftmost match,
\* 0 for None
sql_injection_patterns_search(text) == SqlSearchFrom(text, 1)

\* the number of consecutive characters other than ">" from position i on
RECURSIVE NotGtRun(_, _)
NotGtRun(text, i) ==
    IF i > Len(text) \/ text[i] = ">" THEN 0
    ELSE 1 + NotGtRun(text, i + 1)

\* r"<[^>]+>" at position i: "<", the greedy run of non-">" characters (at
\* least one), then ">".  Giving characters of the run back cannot help: a
\* character of the run is not ">".
TagMatchesAt(text, i) ==
    /\ text[i] = "<"
    /\ LET n == NotGtRun(text, i + 1)
       IN  n >= 1 /\ i + n + 1 <= Len(text)

\* r"<[^>]*>" at position i
TagOrEmptyMatchesAt(text, i) ==
    /\ text[i] = "<"
    /\ i + NotGtRun(text, i + 1) + 1 <= Len(text)

RECURSIVE XssSearchFrom(_, _)
XssSearchFrom(text, i) ==
    IF i > Len(text) THEN 0
    ELSE IF TagMatchesAt(text, i) THEN i
    ELSE XssSearchFrom(text, i + 1)

RECURSIVE XssSearchStarFrom(_, _)
XssSearchStarFrom(text, i) ==
    IF i > Len(text) THEN 0
    ELSE IF TagOrEmptyMatchesAt(text, i) THEN i
    ELSE XssSearchStarFrom(text, i + 1)

\* xss_patterns.search with "*" in place of "+"
xss_patterns_search_star(text) == XssSearchStarFrom(text, 1)

\* xss_patterns.match in place of xss_patterns.search: anchored at the start
xss_patterns_match(text) ==
    IF Len(text) >= 1 /\ TagMatchesAt(text, 1) THEN 1 ELSE 0

\* xss_patterns.search(text): the start of the leftmost match, 0 for None
xss_patterns_search(text) == XssSearchFrom(text, 1)

----------------------------------------------------------------------------
(* Responses.                                                              *)

\* None, as the return value of a before_request function
None == [status |-> 0, body |-> ""]

\* jsonify({"message": "Data submitted successfully!"}), 200
SuccessResponse ==
    [status |-> 200, body |-> "{\"message\": \"Data submitted successfully!\"}"]

SqlMessage == "Potential SQL injection detected."
XssMessage == "Potential XSS attack detected."
DecodeMessage == "UnicodeDecodeError"

\* what Flask answers for an exception no handler is registered for: the
\* generic 500 page, or with app.debug the debugger's page, which shows the
\* exception
InternalServerError(exc, debug) ==
    [status |-> 500,
     body   |-> IF debug THEN exc ELSE "Internal Server Error"]

NotFound == [status |-> 404, body |-> "Not Found"]
MethodNotAllowed == [status |-> 405, body |-> "Method Not Allowed"]
\* Flask's automatic OPTIONS response for a rule: 200, an Allow header, no body
OptionsResponse == [status |-> 200, body |-> ""]
\* the redirect to the path with its repeated slashes merged
RequestRedirect == [status |-> 308, body |-> "Redirecting..."]

----------------------------------------------------------------------------
(* The URL map of app: the rule Flask(__name__) adds for static files and  *)
(* the rule of app.route('/submit', methods=['POST']).                     *)

\* the endpoint of the rule the path matches, "None" when no rule matches:
\* /static/<path:filename> and /submit
MatchRule(p) ==
    IF p = "/submit" THEN "submit_data"
    ELSE IF p = "/static/x" THEN "static"
    ELSE "None"

\* the methods of a rule; OPTIONS is added to every rule, HEAD to a rule
\* that takes GET
RuleMethods(e) ==
    IF e = "submit_data" THEN {"POST", "OPTIONS"}
    ELSE IF e = "static" THEN {"GET", "HEAD", "OPTIONS"}
    ELSE {}

\* the path with each run of slashes replaced by one slash
MergeSlashes(p) == IF p = "//submit" THEN "/submit" ELSE p

----------------------------------------------------------------------------
(* The request contexts.                                                   *)

IdleReq ==
    [pc |-> "idle", method |-> "", path |-> "", data |-> <<>>,
     registered |-> 0, ran |-> 0, searched |-> <<>>, exc |-> "None",
     view |-> FALSE, response |-> None]

\* request.data, read through the context-local proxy: the body of the
\* request being handled in context r
request_data_shared(r) == req[1].data

request_data(r) == req[r].data

\* validate_request raising when an earlier hook has validated the request
validate_request_once(r) ==
    LET d == utf8_decode(request_data(r)) IN
    IF ~d.ok
    THEN [exc |-> DecodeMessage, searched |-> <<>>, rv |-> None]
    ELSE IF sql_injection_patterns_search(d.text) # 0 \/ req[r].ran > 0
    THEN [exc |-> SqlMessage, searched |-> <<"sql_injection_patterns">>,
          rv |-> None]
    ELSE IF xss_patterns_search(d.text) # 0
    THEN [exc |-> XssMessage,
          searched |-> <<"sql_injection_patterns", "xss_patterns">>,
          rv |-> None]
    ELSE [exc |-> "None",
          searched |-> <<"sql_injection_patterns", "xss_patterns">>,
          rv |-> None]

\* validate_request with the two checks in the other order
validate_request_xss_first(r) ==
    LET d == utf8_decode(request_data(r)) IN
    IF ~d.ok
    THEN [exc |-> DecodeMessage, searched |-> <<>>, rv |-> None]
    ELSE IF xss_patterns_search(d.text) # 0
    THEN [exc |-> XssMessage, searched |-> <<"xss_patterns">>, rv |-> None]
    ELSE IF sql_injection_patterns_search(d.text) # 0
    THEN [exc |-> SqlMessage,
          searched |-> <<"xss_patterns", "sql_injection_patterns">>,
          rv |-> None]
    ELSE [exc |-> "None",
          searched |-> <<"xss_patterns", "sql_injection_patterns">>,
          rv |-> None]

\* validate_request answering a tag with an explicit 400 response instead of
\* raising
validate_request_xss_400(r) ==
    LET d == utf8_decode(request_data(r)) IN
    IF ~d.ok
    THEN [exc |-> DecodeMessage, searched |-> <<>>, rv |-> None]
    ELSE IF sql_injection_patterns_search(d.text) # 0
    THEN [exc |-> SqlMessage, searched |-> <<"sql_injection_patterns">>,
          rv |-> None]
    ELSE IF xss_patterns_search(d.text) # 0
    THEN [exc |-> "None",
          searched |-> <<"sql_injection_patterns", "xss_patterns">>,
          rv |-> [status |-> 400, body |-> XssMessage]]
    ELSE [exc |-> "None",
          searched |-> <<"sql_injection_patterns", "xss_patterns">>,
          rv |-> None]

\* SecurityMiddleware.validate_request in request context r: the exception it
\* raises ("None" when it returns), the patterns it searched with, in order,
\* and its return value
validate_request(r) ==
    LET d == utf8_decode(request_data(r)) IN
    IF ~d.ok
    THEN [exc |-> DecodeMessage, searched |-> <<>>, rv |-> None]
    ELSE IF sql_injection_patterns_search(d.text) # 0
    THEN [exc |-> SqlMessage, searched |-> <<"sql_injection_patterns">>,
          rv |-> None]
    ELSE IF xss_patterns_search(d.text) # 0
    THEN [exc |-> XssMessage,
          searched |-> <<"sql_injection_patterns", "xss_patterns">>,
          rv |-> None]
    ELSE [exc |-> "None",
          searched |-> <<"sql_injection_patterns", "xss_patterns">>,
          rv |-> None]

\* the hooks of a route decorator: they run for POST /submit only
HooksOfSubmitOnly(r) ==
    IF req[r].method = "POST" /\ req[r].path = "/submit"
    THEN before_request_funcs ELSE 0

\* self.app.before_request registers on the application: the number of
\* validate_request hooks that run for the request of context r
HooksFor(r) == before_request_funcs

----------------------------------------------------------------------------
(* The requests the model sends.                                           *)

\* the bodies of the three non-empty test submissions
ValidBody ==
    <<"{", "\"", "n", "a", "m", "e", "\"", ":", " ", "\"", "J", "o", "h", "n",
      " ", "D", "o", "e", "\"", "}">>
SqlInjectionBody ==
    <<"{", "\"", "n", "a", "m", "e", "\"", ":", " ", "\"", "J", "o", "h", "n",
      " ", "D", "o", "e", ";", " ", "D", "R", "O", "P", " ", "T", "A", "B",
      "L", "E", " ", "u", "s", "e", "r", "s", ";", "\"", "}">>
XssBody ==
    <<"{", "\"", "n", "a", "m", "e", "\"", ":", " ", "\"", "<", "s", "c", "r",
      "i", "p", "t", ">", "a", "l", "e", "r", "t", "(", "1", ")", "<", "/",
      "s", "c", "r", "i", "p", "t", ">", "\"", "}">>

TestBodies == {ValidBody, SqlInjectionBody, XssBody, <<>>}

\* one body for each keyword, and keywords with a letter missing or replaced
KeywordBodies ==
    { <<"s","e","l","e","c","t">>, <<"I","n","s","e","r","t">>,
      <<"U","P","D","A","T","E">>, <<"d","e","l","e","t","e","d">>,
      <<"b","a","c","k","d","r","o","p">>,
      <<"s","e","l","e","k","t">>, <<"i","n","s","e","t">>,
      <<"u","p"," ","d","a","t","e">>, <<"d","e","l","e","t">>,
      <<"d","r","o","o","p">> }

Fragments ==
    { <<"x">>, <<";">>, <<"-">>, <<"#">>, <<"<">>, <<">">>,
      <<"D","R">>, <<"o","p">>, <<"d","E","l","e","T","e">>, <<"d">>,
      <<"0xC5">>, <<"0xBF">>, <<"E","L","E","C","T">> }

RECURSIVE Concatenations(_)
Concatenations(n) ==
    IF n = 0 THEN {<<>>}
    ELSE LET shorter == Concatenations(n - 1)
         IN  shorter \cup {b \o f : b \in shorter, f \in Fragments}

\* bodies with angle brackets that make no tag, and "a < b > c"
BracketBodies ==
    { <<"<", ">">>, <<"<">>, <<">", "x", "<">>, <<"<", "<", ">">>,
      <<"a", " ", "<", " ", "b", " ", ">", " ", "c">> }

\* bodies with both an SQL token and a tag shape
MixedBodies ==
    { <<"<", "x", ">", ";">>, <<"<", "d", "r", "o", "p", ">">>,
      <<"-", "-", "<", "b", ">">> }

\* the bodies posted to /submit by the test client
Bodies ==
    Concatenations(MaxParts) \cup TestBodies \cup KeywordBodies
        \cup BracketBodies \cup MixedBodies

\* the requests sent to the served application
Methods == {"POST", "GET", "OPTIONS"}
Paths == {"/submit", "/other", "/static/x", "//submit"}
ServerBodies ==
    { <<>>, <<"d","r","o","p">>, <<"<","b",">">>, <<"0xBF">> }

----------------------------------------------------------------------------
(* The state machine.                                                      *)

\* the module has been executed: app exists with the /submit rule and no
\* before_request function; it was run as a script or imported
Init ==
    /\ entry \in {"import", "main"}
    /\ running = FALSE
    /\ before_request_funcs = 0
    /\ req = [r \in Slots |-> IdleReq]

\* if __name__ == '__main__': app.run(debug=True)
AppRun ==
    /\ entry = "main"
    /\ ~running
    /\ running' = TRUE
    /\ UNCHANGED <<entry, before_request_funcs, req>>

\* create_app(): SecurityMiddleware(app) appends its validate_request to the
\* before_request functions of the module-level app.  No code of the script
\* entry point calls it.
create_app ==
    /\ entry = "import"
    /\ before_request_funcs < MaxCreateApp
    /\ before_request_funcs' = before_request_funcs + 1
    /\ UNCHANGED <<entry, running, req>>

\* a request arrives and gets the request context r; registered records how
\* many before_request functions the application had at that moment
Receive(r, m, p, d) ==
    /\ entry = "import" \/ running
    /\ req[r].pc = "idle"
    /\ req' = [req EXCEPT ![r] =
                 [IdleReq EXCEPT !.pc = "preprocess_request", !.method = m,
                                 !.path = p, !.data = d,
                                 !.registered = before_request_funcs]]
    /\ UNCHANGED <<entry, running, before_request_funcs>>

ReceiveRequest(r) ==
    /\ req[r].pc = "idle"
    /\ \E m \in Methods, p \in Paths, d \in ServerBodies : Receive(r, m, p, d)

\* preprocess_request calls the next before_request function
BeforeRequest(r) ==
    /\ req[r].pc = "preprocess_request"
    /\ req[r].ran < HooksFor(r)
    /\ LET v == validate_request(r) IN
       req' = [req EXCEPT ![r] =
                 IF v.exc # "None"
                 THEN [@ EXCEPT !.pc = "handle_exception", !.exc = v.exc,
                                !.searched = v.searched]
                 ELSE IF v.rv # None
                 THEN [@ EXCEPT !.pc = "done", !.response = v.rv,
                                !.searched = v.searched]
                 ELSE [@ EXCEPT !.ran = @ + 1, !.searched = v.searched]]
    /\ UNCHANGED <<entry, running, before_request_funcs>>

\* the exception of a before_request function reaches no handler
HandleException(r) ==
    /\ req[r].pc = "handle_exception"
    /\ req' = [req EXCEPT ![r] =
                 [@ EXCEPT !.pc = "done",
                           !.response = InternalServerError(req[r].exc,
                                                            running)]]
    /\ UNCHANGED <<entry, running, before_request_funcs>>

Preprocessed(r) ==
    /\ req[r].pc = "preprocess_request"
    /\ req[r].ran >= HooksFor(r)

\* @app.route('/submit', methods=['POST']) def submit_data()
submit_data(r) ==
    /\ Preprocessed(r)
    /\ MatchRule(req[r].path) = "submit_data"
    /\ req[r].method = "POST"
    /\ req' = [req EXCEPT ![r] =
                 [@ EXCEPT !.pc = "done", !.view = TRUE,
                           !.response = SuccessResponse]]
    /\ UNCHANGED <<entry, running, before_request_funcs>>

\* the view of the static rule: the repository has no static directory, so
\* no file is found
send_static_file(r) ==
    /\ Preprocessed(r)
    /\ MatchRule(req[r].path) = "static"
    /\ req[r].method \in {"GET", "HEAD"}
    /\ req' = [req EXCEPT ![r] =
                 [@ EXCEPT !.pc = "done", !.response = NotFound]]
    /\ UNCHANGED <<entry, running, before_request_funcs>>

\* a rule answers OPTIONS itself
AutomaticOptions(r) ==
    /\ Preprocessed(r)
    /\ MatchRule(req[r].path) # "None"
    /\ req[r].method = "OPTIONS"
    /\ req' = [req EXCEPT ![r] =
                 [@ EXCEPT !.pc = "done", !.response = OptionsResponse]]
    /\ UNCHANGED <<entry, running, before_request_funcs>>

\* no rule matches the path, with or without its slashes merged (404), or
\* the rule it matches does not take the method (405)
RoutingException(r) ==
    /\ Preprocessed(r)
    /\ LET e == MatchRule(req[r].path) IN
       /\ \/ e = "None" /\ MatchRule(MergeSlashes(req[r].path)) = "None"
          \/ e # "None" /\ req[r].method \notin RuleMethods(e)
       /\ req' = [req EXCEPT ![r] =
                    [@ EXCEPT !.pc = "done",
                              !.response = IF e = "None" THEN NotFound
                                           ELSE MethodNotAllowed]]
    /\ UNCHANGED <<entry, running, before_request_funcs>>

\* the path matches a rule only once its slashes are merged: the request is
\* redirected (308).  For a method the rule does not take, the installed
\* Werkzeug decides between the redirect (1.0 to 2.1) and 405 (2.2 on).
RedirectMergedSlashes(r) ==
    /\ Preprocessed(r)
    /\ MatchRule(req[r].path) = "None"
    /\ LET e == MatchRule(MergeSlashes(req[r].path)) IN
       /\ e # "None"
       /\ \E answer \in IF req[r].method \in RuleMethods(e)
                        THEN {RequestRedirect}
                        ELSE {RequestRedirect, MethodNotAllowed} :
             req' = [req EXCEPT ![r] =
                       [@ EXCEPT !.pc = "done", !.response = answer]]
    /\ UNCHANGED <<entry, running, before_request_funcs>>

\* the response is sent and the request context is popped
Close(r) ==
    /\ req[r].pc = "done"
    /\ req' = [req EXCEPT ![r] = IdleReq]
    /\ UNCHANGED <<entry, running, before_request_funcs>>

Next ==
    \/ AppRun
    \/ create_app
    \/ \E r \in Slots : ReceiveRequest(r)
    \/ \E r \in Slots : BeforeRequest(r)
    \/ \E r \in Slots : HandleException(r)
    \/ \E r \in Slots : submit_data(r)
    \/ \E r \in Slots : send_static_file(r)
    \/ \E r \in Slots : AutomaticOptions(r)
    \/ \E r \in Slots : RedirectMergedSlashes(r)
    \/ \E r \in Slots : RoutingException(r)
    \/ \E r \in Slots : Close(r)

Spec == Init /\ [][Next]_vars

----------------------------------------------------------------------------
(* TestSecurityMiddleware: setUp calls create_app(), then the test posts   *)
(* one body to /submit through the test client.                            *)

InitTest ==
    /\ entry = "import"
    /\ running = FALSE
    /\ before_request_funcs = 0
    /\ req = [r \in Slots |-> IdleReq]

setUp ==
    /\ req[1].pc = "idle"
    /\ create_app

ClientPost ==
    /\ before_request_funcs >= 1
    /\ req[1].pc = "idle"
    /\ \E d \in Bodies : Receive(1, "POST", "/submit", d)

NextTest ==
    \/ setUp
    \/ ClientPost
    \/ BeforeRequest(1)
    \/ HandleException(1)
    \/ submit_data(1)
    \/ Close(1)

SpecTest == InitTest /\ [][NextTest]_vars

----------------------------------------------------------------------------
(* The vocabulary of the properties, stated without the patterns' search.  *)

\* str.upper on the characters of the model
ToUpper(c) ==
    IF \E k \in 1..26 : LowerCase[k] = c
    THEN UpperCase[CHOOSE k \in 1..26 : LowerCase[k] = c]
    ELSE IF c = "U+017F" THEN "S" ELSE c

SqlTokens ==
    { <<"S","E","L","E","C","T">>, <<"I","N","S","E","R","T">>,
      <<"U","P","D","A","T","E">>, <<"D","E","L","E","T","E">>,
      <<"D","R","O","P">>, <<";">>, <<"-","-">>, <<"#">> }

\* text has a substring that is tok up to letter case
ContainsIgnoringCase(text, tok) ==
    \E i \in 1..(Len(text) - Len(tok) + 1) :
        [k \in 1..Len(tok) |-> ToUpper(text[i + k - 1])] = tok

HasSqlToken(text) == \E tok \in SqlTokens : ContainsIgnoringCase(text, tok)

\* "<", then one or more characters other than ">", then ">"
HasTagShape(text) ==
    \E i, j \in 1..Len(text) :
        /\ text[i] = "<"
        /\ text[j] = ">"
        /\ j >= i + 2
        /\ \A k \in (i + 1)..(j - 1) : text[k] # ">"

\* every "<" is followed at once by ">" or by no ">" at all
OnlyHarmlessBrackets(text) ==
    \A i \in 1..Len(text) :
        text[i] = "<" =>
            \/ i < Len(text) /\ text[i + 1] = ">"
            \/ \A j \in (i + 1)..Len(text) : text[j] # ">"

HasBracket(text) == \E i \in 1..Len(text) : text[i] \in {"<", ">"}

Done(r) == req[r].pc = "done"
Decodable(r) == utf8_decode(req[r].data).ok
Text(r) == utf8_decode(req[r].data).text
PostSubmit(r) == req[r].method = "POST" /\ req[r].path = "/submit"
\* the text of the body is free of SQL tokens and of tag shapes
Clean(r) == Decodable(r) /\ ~HasSqlToken(Text(r)) /\ ~HasTagShape(Text(r))
\* a validate_request hook has run for the request
Validated(r) == req[r].ran >= 1 \/ req[r].exc # "None"

GenericError == [status |-> 500, body |-> "Internal Server Error"]

\* what the routing answers to method m on path p: one answer, except for
\* a method /submit does not take on //submit, where the installed Werkzeug
\* decides between the redirect and 405
RoutingAnswers(m, p) ==
    IF p = "/submit"
    THEN IF m = "POST" THEN {SuccessResponse}
         ELSE IF m = "OPTIONS" THEN {OptionsResponse}
         ELSE {MethodNotAllowed}
    ELSE IF p = "/static/x"
    THEN IF m = "OPTIONS" THEN {OptionsResponse}
         ELSE IF m \in {"GET", "HEAD"} THEN {NotFound}
         ELSE {MethodNotAllowed}
    ELSE IF p = "//submit"
    THEN IF m \in {"POST", "OPTIONS"} THEN {RequestRedirect}
         ELSE {RequestRedirect, MethodNotAllowed}
    ELSE {NotFound}

\* the answers to the request alone: of the routing when it is not validated
\* or its body is clean, the generic error otherwise
AnswersAlone(r) ==
    IF Validated(r) /\ ~Clean(r) THEN {GenericError}
    ELSE RoutingAnswers(req[r].method, req[r].path)

----------------------------------------------------------------------------
(* The properties.                                                         *)

\* C1: a POST to /submit of the configured application whose body (decodable
\* text, the empty body included) has no SQL token in any letter case and no
\* tag-shaped substring is accepted by validate_request and answered with
\* status 200 and the body {"message": "Data submitted successfully!"}.
C1_CleanBodyAccepted ==
    \A r \in Slots :
        (Done(r) /\ PostSubmit(r) /\ req[r].registered >= 1 /\ Clean(r)) =>
            /\ req[r].exc = "None"
            /\ req[r].response = SuccessResponse

C1_Witness ==
    \E r \in Slots :
        /\ Done(r) /\ req[r].data = ValidBody /\ req[r].registered >= 1
        /\ req[r].response = SuccessResponse

\* C2: a POST to /submit of the configured application whose body contains
\* SELECT, INSERT, UPDATE, DELETE, DROP, ";", "--" or "#" in any letter case
\* and at any position is rejected with the SQL injection error and answered
\* with status 500.
C2_SqlTokenRejected ==
    \A r \in Slots :
        (/\ Done(r) /\ PostSubmit(r) /\ req[r].registered >= 1
         /\ Decodable(r) /\ HasSqlToken(Text(r))) =>
            /\ req[r].exc = SqlMessage
            /\ req[r].response.status = 500

C2_Witness ==
    \E r \in Slots :
        /\ Done(r) /\ req[r].data = <<"d","e","l","e","t","e","d">>
        /\ req[r].exc = SqlMessage
        /\ req[r].response.status = 500

\* C3: a POST to /submit of the configured application whose body has a
\* tag-shaped substring and no SQL token is rejected with the XSS error and
\* answered with status 500.
C3_TagRejected ==
    \A r \in Slots :
        (/\ Done(r) /\ PostSubmit(r) /\ req[r].registered >= 1
         /\ Decodable(r) /\ HasTagShape(Text(r)) /\ ~HasSqlToken(Text(r))) =>
            /\ req[r].exc = XssMessage
            /\ req[r].response.status = 500

C3_Witness ==
    \E r \in Slots :
        /\ Done(r) /\ req[r].data = XssBody
        /\ req[r].exc = XssMessage
        /\ req[r].response.status = 500

\* C4: submit_data executes for a request only after validate_request has run
\* on the request and accepted it, whether or not create_app has been called.
C4_HandlerOnlyAfterValidation ==
    \A r \in Slots : req[r].view => req[r].ran >= 1

\* C5: a body with both an SQL token and a tag-shaped substring is rejected
\* with the SQL injection error, and the XSS pattern is not searched for it.
C5_SqlBeforeXss ==
    \A r \in Slots :
        (/\ Validated(r) /\ Decodable(r)
         /\ HasSqlToken(Text(r)) /\ HasTagShape(Text(r))) =>
            /\ req[r].exc = SqlMessage
            /\ req[r].searched = <<"sql_injection_patterns">>

C5_Witness ==
    \E r \in Slots :
        /\ Done(r) /\ req[r].data = <<"<", "x", ">", ";">>
        /\ req[r].exc = SqlMessage
        /\ req[r].response.status = 500

\* C6: a request rejected for an SQL token and a request rejected for a tag
\* get the same response: status 500 and a body that names neither kind.
C6_RejectionsIndistinguishable ==
    \A r1, r2 \in Slots :
        (/\ Done(r1) /\ Decodable(r1) /\ HasSqlToken(Text(r1))
         /\ req[r1].registered >= 1
         /\ Done(r2) /\ Decodable(r2) /\ HasTagShape(Text(r2))
         /\ ~HasSqlToken(Text(r2)) /\ req[r2].registered >= 1) =>
            /\ req[r1].response = req[r2].response
            /\ req[r1].response.status = 500
            /\ req[r1].response.body \notin {SqlMessage, XssMessage}

C6_Witness ==
    \E r1, r2 \in Slots :
        /\ Done(r1) /\ req[r1].exc = SqlMessage
        /\ Done(r2) /\ req[r2].exc = XssMessage
        /\ req[r1].response = req[r2].response

\* C7: in every interleaving of requests, the response of a request is the
\* one it gets when it is processed alone: it is decided by the request's own
\* method, path and body (and by whether a hook ran for it), never by another
\* request.
C7_RequestsIndependent ==
    \A r \in Slots : Done(r) => req[r].response \in AnswersAlone(r)

C7_Witness ==
    /\ Done(1) /\ Validated(1) /\ req[1].response = GenericError
    /\ Done(2) /\ Validated(2) /\ req[2].response = SuccessResponse

\* C8: for a body without SQL token that has angle brackets: when every "<"
\* is followed at once by ">" or by no ">" at all, the body is accepted;
\* when a "<" is followed by one or more characters other than ">" and then
\* a ">", it is rejected with the XSS error.
C8_TagShapeOnly ==
    \A r \in Slots :
        (/\ Done(r) /\ PostSubmit(r) /\ req[r].registered >= 1
         /\ Decodable(r) /\ ~HasSqlToken(Text(r)) /\ HasBracket(Text(r))) =>
            /\ OnlyHarmlessBrackets(Text(r)) =>
                  req[r].exc = "None" /\ req[r].response = SuccessResponse
            /\ ~OnlyHarmlessBrackets(Text(r)) =>
                  req[r].exc = XssMessage /\ req[r].response.status = 500
            /\ OnlyHarmlessBrackets(Text(r)) <=> ~HasTagShape(Text(r))

C8_Witness ==
    \E r \in Slots :
        /\ Done(r) /\ req[r].data = <<"<", ">">>
        /\ req[r].response = SuccessResponse
        /\ req[r].ran >= 1

\* C9: with two or more validate_request hooks registered, a request gets
\* the response it gets with one: a rejection is raised by the first hook,
\* and a body the first hook accepts passes every later hook.
C9_RegistrationIdempotent ==
    \A r \in Slots :
        (Done(r) /\ req[r].registered >= 2) =>
            /\ req[r].response \in
                  IF Clean(r) THEN RoutingAnswers(req[r].method, req[r].path)
                  ELSE {GenericError}
            /\ req[r].exc # "None" => req[r].ran = 0
            /\ req[r].exc = "None" => req[r].ran >= req[r].registered

C9_Witness ==
    \E r \in Slots :
        /\ Done(r) /\ req[r].registered >= 2 /\ req[r].ran >= 2
        /\ req[r].response = SuccessResponse

\* C10 as stated: once the middleware is registered, a request to another
\* path or with another method is answered 500 when its body has an SQL token
\* or a tag shape, and with the routing error 404 or 405, never the success
\* payload, when its body is clean.
C10_AsStated ==
    \A r \in Slots :
        (Done(r) /\ req[r].registered >= 1 /\ ~PostSubmit(r)) =>
            /\ ~Clean(r) => req[r].response.status = 500
            /\ Clean(r) => /\ req[r].response.status \in {404, 405}
                           /\ req[r].response # SuccessResponse

\* C10, amended: once the middleware is registered, a request to another
\* path or with another method is answered 500 when its body has an SQL token
\* or a tag shape; when its body is clean it gets what the routing answers:
\* 404, 405, the automatic OPTIONS response (200, no body) when the method is
\* OPTIONS and the path matches a rule, or the redirect (308) when the path
\* matches a rule only with its slashes merged, and never the success payload.
C10_ValidationBeforeDispatch ==
    \A r \in Slots :
        (Done(r) /\ req[r].registered >= 1 /\ ~PostSubmit(r)) =>
            /\ ~Clean(r) => req[r].response.status = 500
            /\ Clean(r) =>
                  /\ \/ req[r].response.status \in {404, 405}
                     \/ /\ req[r].method = "OPTIONS"
                        /\ req[r].path \in {"/submit", "/static/x"}
                        /\ req[r].response = OptionsResponse
                     \/ /\ req[r].path = "//submit"
                        /\ req[r].response.status = 308
                  /\ req[r].response # SuccessResponse

C10_Witness ==
    \E r \in Slots :
        /\ Done(r) /\ req[r].registered >= 1
        /\ req[r].method = "GET" /\ req[r].path = "/other"
        /\ req[r].data = <<"d","r","o","p">>
        /\ req[r].response.status = 500

====
